---- MODULE Spec2Model ----
(***************************************************************************)
(* Retry-interval enumerators of sql-client (src/retry_enumerators).       *)
(*                                                                         *)
(* One strategy instance (none, fixed, incremental or exponential) is      *)
(* constructed and then driven by move_next and reset calls; the free      *)
(* functions of mod.rs are also applied on their own, to arguments of the  *)
(* whole range of their types, an instance is cloned and driven next to    *)
(* its clone, and the exponential enumerators of sql_retry_interval.rs and *)
(* retry_enumerators2 are driven in lockstep with the one of               *)
(* retry_enumerators.  A Duration is modelled by its whole number of       *)
(* milliseconds (every Duration the enumerators build comes from           *)
(* Duration::from_secs or Duration::from_millis).  The randomness argument *)
(* of new_random (an f64) is modelled in percent: 20 stands for 0.2.       *)
(***************************************************************************)
EXTENDS Integers, Sequences, FiniteSets, TLC

VARIABLES
    kind,               \* which enumerator was constructed ("none" before construction)
    result,             \* outcome of the constructor: "new", "Ok" or "ArgumentOutOfRange"
    err_param,          \* parameter name carried by the ArgumentOutOfRange error
    delta_backoff_time, \* constructor argument (the gap), ms
    max_time_interval,  \* constructor argument / field, ms
    min_time_interval,  \* constructor argument / field, ms
    randomness,         \* constructor argument, percent
    min_random,         \* field: lower end of the jitter window, ms
    max_random,         \* field: upper end of the jitter window, ms
    current,            \* field: the current interval, ms
    internal_counter,   \* field of the exponential enumerator (0 for the incremental one)
    lastOp,             \* the last call made: "none", "new", "move_next", "reset"
    prevOp,             \* the call made before the last one
    lastRet,            \* what the last move_next returned
    before,             \* current() right before the last call
    random,             \* the draw the last move_next took from get_random (NoDraw if none)
    calls,              \* move_next calls since construction or the last reset
    succ,               \* move_next calls that returned true since construction or the last reset
    fails,              \* move_next calls that returned false since construction or the last reset
    call,               \* the last call of a free function: its name, arguments and result
    other               \* a second instance, made by clone: its fields and call history

vars == <<kind, result, err_param, delta_backoff_time, max_time_interval,
          min_time_interval, randomness, min_random, max_random, current,
          internal_counter, lastOp, prevOp, lastRet, before, random, calls, succ,
          fails, call, other>>

\* The variables of the enumerator instance and of its call history.
Instance == <<kind, result, err_param, delta_backoff_time, max_time_interval,
              min_time_interval, randomness, min_random, max_random, current,
              internal_counter, lastOp, prevOp, lastRet, before, random, calls,
              succ, fails>>

----------------------------------------------------------------------------
(* Bounds of the model. *)

\* Small durations (ms) tried as min and max: 0..MaxSmall.
MaxSmall == 10
\* Small gaps (ms) tried as delta_backoff_time: 0..MaxGap.
MaxGap == 2
\* move_next calls explored since construction or the last reset.
MaxCalls == 5

\* Marks "this call took no draw".
NoDraw == 0 - 1
\* Marks "no second instance has been made".
NoInstance == [kind |-> "none"]
\* Marks "no free function has been called".
NoCall == [fn |-> "none", args |-> <<>>, out |-> <<>>]

----------------------------------------------------------------------------
(* Program constants. *)

\* const MIN_DURATION: Duration = Duration::new(0, 0)
MIN_DURATION == 0
\* const MAX_DURATION: Duration = Duration::from_secs(120), in ms
MAX_DURATION == 120000
\* the randomness SqlXxxIntervalEnumerator::new passes to new_random (0.2)
DEFAULT_RANDOMNESS == 20

----------------------------------------------------------------------------
(* Inputs. *)

\* Durations tried as min_time_interval and max_time_interval.
Durations == (0..MaxSmall) \cup {MAX_DURATION, MAX_DURATION + 1}
\* Durations tried as delta_backoff_time.
Gaps == (0..MaxGap) \cup {MAX_DURATION, MAX_DURATION + 1}
\* Randomness values tried, in percent: none, the default of new(), and a wide one.
Randomness == {0, DEFAULT_RANDOMNESS, 75}
\* (gap, randomness) pairs tried: the jitter window of a 120 s gap is explored
\* only in its degenerate form.
GapInputs == {gr \in Gaps \X Randomness : gr[1] <= MaxGap \/ gr[2] = 0}

----------------------------------------------------------------------------
(* retry_enumerators/mod.rs *)

\* f64::round of the non-negative value n/100: half rounds away from zero.
RoundPct(n) == (n + 50) \div 100

\* A variant of get_random_interval with the two factors exchanged.
get_random_interval_swapped(gap, r) ==
    LET temp_max == gap * (100 - r)
        temp_min == gap * (100 + r)
    IN  <<RoundPct(temp_min), RoundPct(temp_max)>>

\* get_random_interval: (min_random, max_random) around the gap, with gap in ms
\* and r in percent, so temp_max and temp_min are held in hundredths of a ms.
\* The two `> u64::MAX as f64` branches need gap * (1 +- r) above 2^64; no gap
\* of this model (at most MAX_DURATION + 1 ms) comes near, so both comparisons
\* are false and the rounded values are returned.
get_random_interval(gap, r) ==
    LET temp_max == gap * (100 + r)
        temp_min == gap * (100 - r)
    IN  <<RoundPct(temp_min), RoundPct(temp_max)>>

\* A variant of get_random that draws even from a window of one value.
get_random_always_draws(minr, maxr) == minr .. (maxr + 1)

\* A variant of get_random whose range includes max_random.
get_random_inclusive(minr, maxr) == minr .. maxr

\* get_random: the set of values the call may return.
get_random(minr, maxr) ==
    IF maxr = minr THEN {minr} ELSE minr .. (maxr - 1)

\* A variant of validate that forgets the max < min check.
validate_no_order(gap, max, min) ==
    IF min < MIN_DURATION \/ max > MAX_DURATION THEN "min_time_interval"
    ELSE IF max < MIN_DURATION \/ max > MAX_DURATION THEN "max_time_interval"
    ELSE IF gap < MIN_DURATION \/ gap > MAX_DURATION THEN "gap_time_interval"
    ELSE "Ok"

\* validate: "Ok", or the parameter name of the ArgumentOutOfRange error.
validate(gap, max, min) ==
    IF min < MIN_DURATION \/ max > MAX_DURATION THEN "min_time_interval"
    ELSE IF max < MIN_DURATION \/ max > MAX_DURATION THEN "max_time_interval"
    ELSE IF gap < MIN_DURATION \/ gap > MAX_DURATION THEN "gap_time_interval"
    ELSE IF max < min THEN "max_time_interval"
    ELSE "Ok"

----------------------------------------------------------------------------
(* The state before any constructor has run. *)

Init ==
    /\ kind = "none"
    /\ result = "new"
    /\ err_param = ""
    /\ delta_backoff_time = 0
    /\ max_time_interval = 0
    /\ min_time_interval = 0
    /\ randomness = 0
    /\ min_random = 0
    /\ max_random = 0
    /\ current = 0
    /\ internal_counter = 0
    /\ lastOp = "none"
    /\ prevOp = "none"
    /\ lastRet = FALSE
    /\ before = 0
    /\ random = NoDraw
    /\ calls = 0
    /\ succ = 0
    /\ fails = 0
    /\ call = NoCall
    /\ other = NoInstance

\* new_random of either enumerator: validate, then build the instance.
\* counter0 is the initial internal_counter of the instance built.
Construct(k, gap, max, min, r, counter0) ==
    LET v == validate(gap, max, min)
        w == get_random_interval(gap, r)
    IN  /\ kind = "none"
        /\ kind' = k
        /\ delta_backoff_time' = gap
        /\ max_time_interval' = max
        /\ min_time_interval' = min
        /\ randomness' = r
        /\ lastOp' = "new"
        /\ prevOp' = lastOp
        /\ UNCHANGED <<call, other>>
        /\ UNCHANGED <<lastRet, before, random, calls, succ, fails, current>>
        /\ IF v = "Ok"
           THEN /\ result' = "Ok"
                /\ err_param' = ""
                /\ min_random' = w[1]
                /\ max_random' = w[2]
                /\ internal_counter' = counter0
           ELSE /\ result' = "ArgumentOutOfRange"
                /\ err_param' = v
                /\ UNCHANGED <<min_random, max_random, internal_counter>>

----------------------------------------------------------------------------
(* retry_enumerators/sql_incremental_interval_enumerator.rs *)

\* SqlIncrementalIntervalEnumerator::new_random
Incremental_new_random(gap, max, min, r) ==
    Construct("Incremental", gap, max, min, r, 0)

\* SqlIncrementalIntervalEnumerator::new
Incremental_new(gap, max, min) ==
    Incremental_new_random(gap, max, min, DEFAULT_RANDOMNESS)

\* A variant of next_interval that steps by two draws.
Incremental_next_interval_two_draws(cur, min, rnd) ==
    IF cur < min THEN min ELSE cur + rnd + rnd

\* A variant of next_interval that returns the draw alone, not current + draw.
Incremental_next_interval_draw_only(cur, min, rnd) ==
    IF cur < min THEN min ELSE rnd

\* next_interval: min while current is below min, else current plus one draw.
Incremental_next_interval(cur, min, rnd) ==
    IF cur < min THEN min ELSE cur + rnd

\* Whether next_interval reaches its get_random call.
Incremental_draws(cur, max, min) == cur < max /\ ~(cur < min)

\* A variant of move_next that stores the next interval before comparing it.
Incremental_move_next_store_first(cur, max, min, rnd) ==
    IF cur < max
    THEN LET next == Incremental_next_interval(cur, min, rnd)
         IN  [ret |-> next <= max, current |-> next]
    ELSE [ret |-> FALSE, current |-> cur]

\* A variant of move_next without the outer test current < max.
Incremental_move_next_no_guard(cur, max, min, rnd) ==
    LET next == Incremental_next_interval(cur, min, rnd)
    IN  IF next <= max
        THEN [ret |-> TRUE, current |-> next]
        ELSE [ret |-> FALSE, current |-> cur]

\* A variant of move_next that accepts a candidate only below max.
Incremental_move_next_strict(cur, max, min, rnd) ==
    IF cur < max
    THEN LET next == Incremental_next_interval(cur, min, rnd)
         IN  IF next < max
             THEN [ret |-> TRUE, current |-> next]
             ELSE [ret |-> FALSE, current |-> cur]
    ELSE [ret |-> FALSE, current |-> cur]

\* move_next: the value returned and the new current.
Incremental_move_next(cur, max, min, rnd) ==
    IF cur < max
    THEN LET next == Incremental_next_interval(cur, min, rnd)
         IN  IF next <= max
             THEN [ret |-> TRUE, current |-> next]
             ELSE [ret |-> FALSE, current |-> cur]
    ELSE [ret |-> FALSE, current |-> cur]

\* reset: the new current.
Incremental_reset == 0

\* What every move_next call records about itself.
Record_move_next(ret, drew, rnd) ==
    /\ lastOp' = "move_next"
    /\ prevOp' = lastOp
    /\ UNCHANGED <<call, other>>
    /\ lastRet' = ret
    /\ before' = current
    /\ random' = IF drew THEN rnd ELSE NoDraw
    /\ calls' = calls + 1
    /\ succ' = IF ret THEN succ + 1 ELSE succ
    /\ fails' = IF ret THEN fails ELSE fails + 1

\* What every reset call records about itself.
Record_reset ==
    /\ lastOp' = "reset"
    /\ prevOp' = lastOp
    /\ UNCHANGED <<call, other>>
    /\ lastRet' = FALSE
    /\ before' = current
    /\ random' = NoDraw
    /\ calls' = 0
    /\ succ' = 0
    /\ fails' = 0

Config == <<kind, result, err_param, delta_backoff_time, max_time_interval,
            min_time_interval, randomness, min_random, max_random>>

Incremental_NewRandom ==
    \E gr \in GapInputs, max \in Durations, min \in Durations :
        Incremental_new_random(gr[1], max, min, gr[2])

Incremental_New ==
    \E gap \in 0..MaxGap, max \in Durations, min \in Durations :
        Incremental_new(gap, max, min)

Incremental_MoveNext ==
    /\ kind = "Incremental"
    /\ result = "Ok"
    /\ calls < MaxCalls
    /\ \E rnd \in get_random(min_random, max_random) :
         LET r == Incremental_move_next(current, max_time_interval,
                                        min_time_interval, rnd)
         IN  /\ current' = r.current
             /\ Record_move_next(r.ret,
                    Incremental_draws(current, max_time_interval, min_time_interval),
                    rnd)
    /\ UNCHANGED <<Config, internal_counter>>

\* A variant of reset that also collapses the window to the gap.
Incremental_Reset_collapse_window ==
    /\ kind = "Incremental"
    /\ result = "Ok"
    /\ current' = Incremental_reset
    /\ Record_reset
    /\ min_random' = delta_backoff_time
    /\ max_random' = delta_backoff_time
    /\ UNCHANGED <<kind, result, err_param, delta_backoff_time, max_time_interval,
                   min_time_interval, randomness, internal_counter>>

Incremental_Reset ==
    /\ kind = "Incremental"
    /\ result = "Ok"
    /\ current' = Incremental_reset
    /\ Record_reset
    /\ UNCHANGED <<Config, internal_counter>>

----------------------------------------------------------------------------
(* retry_enumerators/sql_exponential_interval_enumerator.rs *)

\* SqlExponentialIntervalEnumerator::new_random
Exponential_new_random(gap, max, min, r) ==
    Construct("Exponential", gap, max, min, r, 1)

\* SqlExponentialIntervalEnumerator::new
Exponential_new(gap, max, min) ==
    Exponential_new_random(gap, max, min, DEFAULT_RANDOMNESS)

\* A variant of next_interval that leaves min out of the new time.
Exponential_next_interval_no_min(counter, min, rnd) ==
    LET exponent == counter * counter - 1
        delta == exponent * rnd
    IN  [new_time |-> delta, internal_counter |-> counter + 1]

\* next_interval: the new time and the advanced counter.  The u64 products
\* stay far below 2^64 within MaxCalls calls, so no wrap-around is modelled.
Exponential_next_interval(counter, min, rnd) ==
    LET exponent == counter * counter - 1
        delta == exponent * rnd
    IN  [new_time |-> min + delta, internal_counter |-> counter + 1]

\* A variant of move_next that advances the counter on every call.
Exponential_move_next_count_always(cur, counter, max, min, rnd) ==
    IF cur < max
    THEN LET n == Exponential_next_interval(counter, min, rnd)
         IN  IF n.new_time <= max
             THEN [ret |-> TRUE, current |-> n.new_time,
                   internal_counter |-> n.internal_counter]
             ELSE [ret |-> FALSE, current |-> cur,
                   internal_counter |-> n.internal_counter]
    ELSE [ret |-> FALSE, current |-> cur, internal_counter |-> counter + 1]

\* move_next: the value returned, the new current and the new counter.
Exponential_move_next(cur, counter, max, min, rnd) ==
    IF cur < max
    THEN LET n == Exponential_next_interval(counter, min, rnd)
         IN  IF n.new_time <= max
             THEN [ret |-> TRUE, current |-> n.new_time,
                   internal_counter |-> n.internal_counter]
             ELSE [ret |-> FALSE, current |-> cur,
                   internal_counter |-> n.internal_counter]
    ELSE [ret |-> FALSE, current |-> cur, internal_counter |-> counter]

\* A variant of reset that keeps the counter.
Exponential_reset_keep_counter ==
    [current |-> 0, internal_counter |-> internal_counter]

\* A variant of reset that restores the counter to 1 only from another value.
Exponential_reset_toggle ==
    [current |-> 0, internal_counter |-> IF internal_counter = 1 THEN 2 ELSE 1]

\* reset: the new current and the new counter.
Exponential_reset == [current |-> 0, internal_counter |-> 1]

Exponential_NewRandom ==
    \E gr \in GapInputs, max \in Durations, min \in Durations :
        Exponential_new_random(gr[1], max, min, gr[2])

Exponential_New ==
    \E gap \in 0..MaxGap, max \in Durations, min \in Durations :
        Exponential_new(gap, max, min)

Exponential_MoveNext ==
    /\ kind = "Exponential"
    /\ result = "Ok"
    /\ calls < MaxCalls
    /\ \E rnd \in get_random(min_random, max_random) :
         LET r == Exponential_move_next(current, internal_counter,
                                        max_time_interval, min_time_interval, rnd)
         IN  /\ current' = r.current
             /\ internal_counter' = r.internal_counter
             /\ Record_move_next(r.ret, current < max_time_interval, rnd)
    /\ UNCHANGED Config

Exponential_Reset ==
    /\ kind = "Exponential"
    /\ result = "Ok"
    /\ current' = Exponential_reset.current
    /\ internal_counter' = Exponential_reset.internal_counter
    /\ Record_reset
    /\ UNCHANGED Config

----------------------------------------------------------------------------
(* retry_enumerators/sql_fixed_interval_enumerator.rs *)

\* A variant of new_random that validates the gap like the other enumerators.
Fixed_new_random_validated(gap, r) ==
    Construct("Fixed", gap, MAX_DURATION, MIN_DURATION, r, 0)

\* SqlFixedIntervalEnumerator::new_random: no validation, always Ok.  The
\* enumerator has no min_time_interval or max_time_interval.
Fixed_new_random(gap, r) ==
    LET w == get_random_interval(gap, r)
    IN  /\ kind = "none"
        /\ kind' = "Fixed"
        /\ result' = "Ok"
        /\ delta_backoff_time' = gap
        /\ randomness' = r
        /\ min_random' = w[1]
        /\ max_random' = w[2]
        /\ lastOp' = "new"
        /\ prevOp' = lastOp
        /\ UNCHANGED <<call, other>>
        /\ UNCHANGED <<err_param, max_time_interval, min_time_interval, current,
                       internal_counter, lastRet, before, random, calls, succ, fails>>

\* SqlFixedIntervalEnumerator::new
Fixed_new(gap) == Fixed_new_random(gap, DEFAULT_RANDOMNESS)

\* next_interval: Duration::from_millis of one draw.
Fixed_next_interval(rnd) == rnd

\* A variant of move_next that gives up once the interval repeats.
Fixed_move_next_stop_on_repeat(cur, rnd) ==
    LET next == Fixed_next_interval(rnd)
    IN  IF next = cur
        THEN [ret |-> FALSE, current |-> cur]
        ELSE [ret |-> TRUE, current |-> next]

\* move_next: the value returned and the new current.
Fixed_move_next(cur, rnd) ==
    LET next == Fixed_next_interval(rnd)
    IN  [ret |-> TRUE, current |-> next]

\* reset: the new current.
Fixed_reset == 0

Fixed_NewRandom ==
    \E gr \in GapInputs : Fixed_new_random(gr[1], gr[2])

Fixed_New ==
    \E gap \in 0..MaxGap : Fixed_new(gap)

Fixed_MoveNext ==
    /\ kind = "Fixed"
    /\ result = "Ok"
    /\ calls < MaxCalls
    /\ \E rnd \in get_random(min_random, max_random) :
         LET r == Fixed_move_next(current, rnd)
         IN  /\ current' = r.current
             /\ Record_move_next(r.ret, TRUE, rnd)
    /\ UNCHANGED <<Config, internal_counter>>

Fixed_Reset ==
    /\ kind = "Fixed"
    /\ result = "Ok"
    /\ current' = Fixed_reset
    /\ Record_reset
    /\ UNCHANGED <<Config, internal_counter>>

----------------------------------------------------------------------------
(* retry_enumerators/sql_none_interval_enumerator.rs *)
(* The enumerator has no field; the variable current holds what current()  *)
(* returns.                                                                *)

\* SqlNoneIntervalEnumerator::new: always Ok(Self).
None_new ==
    /\ kind = "none"
    /\ kind' = "None"
    /\ result' = "Ok"
    /\ lastOp' = "new"
    /\ prevOp' = lastOp
    /\ UNCHANGED <<call, other>>
    /\ UNCHANGED <<err_param, delta_backoff_time, max_time_interval,
                   min_time_interval, randomness, min_random, max_random, current,
                   internal_counter, lastRet, before, random, calls, succ, fails>>

\* current: Duration::new(0, 0).
None_current == 0

\* A variant of move_next that reports exhaustion.
None_move_next_false == FALSE

\* move_next: the value returned.
None_move_next == TRUE

None_New == None_new

None_MoveNext ==
    /\ kind = "None"
    /\ result = "Ok"
    /\ calls < MaxCalls
    /\ current' = None_current
    /\ Record_move_next(None_move_next, FALSE, NoDraw)
    /\ UNCHANGED <<Config, internal_counter>>

\* reset: an empty body.
None_Reset ==
    /\ kind = "None"
    /\ result = "Ok"
    /\ current' = None_current
    /\ Record_reset
    /\ UNCHANGED <<Config, internal_counter>>

----------------------------------------------------------------------------

Next ==
    \/ Incremental_NewRandom
    \/ Incremental_New
    \/ Incremental_MoveNext
    \/ Incremental_Reset
    \/ Exponential_NewRandom
    \/ Exponential_New
    \/ Exponential_MoveNext
    \/ Exponential_Reset
    \/ Fixed_NewRandom
    \/ Fixed_New
    \/ Fixed_MoveNext
    \/ Fixed_Reset
    \/ None_New
    \/ None_MoveNext
    \/ None_Reset

Spec == Init /\ [][Next]_vars

----------------------------------------------------------------------------
(* Unsigned integers of 64 and 128 bits.  They exceed the integers of the  *)
(* model checker, so a wide value is the sequence of its base-256 digits,  *)
(* least significant first, without high zero digits; <<>> is 0.           *)

Base == 2^8

RECURSIVE Nat2L(_)
\* The digits of a natural number.
Nat2L(n) == IF n = 0 THEN <<>> ELSE <<n % Base>> \o Nat2L(n \div Base)

RECURSIVE L2Nat(_)
\* The natural number of a digit sequence (for values that fit).
L2Nat(x) == IF x = <<>> THEN 0 ELSE Head(x) + Base * L2Nat(Tail(x))

RECURSIVE Trim(_)
Trim(x) ==
    IF x # <<>> /\ x[Len(x)] = 0 THEN Trim(SubSeq(x, 1, Len(x) - 1)) ELSE x

RECURSIVE AddC(_, _, _)
AddC(x, y, carry) ==
    IF x = <<>> /\ y = <<>>
    THEN Nat2L(carry)
    ELSE LET a == IF x = <<>> THEN 0 ELSE Head(x)
             b == IF y = <<>> THEN 0 ELSE Head(y)
             t == a + b + carry
         IN  <<t % Base>> \o AddC(IF x = <<>> THEN <<>> ELSE Tail(x),
                                  IF y = <<>> THEN <<>> ELSE Tail(y),
                                  t \div Base)

\* x + y
Add(x, y) == AddC(x, y, 0)

RECURSIVE MulSmallC(_, _, _)
MulSmallC(x, k, carry) ==
    IF x = <<>>
    THEN Nat2L(carry)
    ELSE LET t == Head(x) * k + carry
         IN  <<t % Base>> \o MulSmallC(Tail(x), k, t \div Base)

\* x * k, for a natural number k below 2^22
MulSmall(x, k) == Trim(MulSmallC(x, k, 0))

RECURSIVE Mul(_, _)
\* x * y
Mul(x, y) ==
    IF x = <<>> \/ y = <<>>
    THEN <<>>
    ELSE LET rest == Mul(x, Tail(y))
         IN  Add(MulSmall(x, Head(y)), IF rest = <<>> THEN <<>> ELSE <<0>> \o rest)

RECURSIVE DecC(_)
DecC(x) ==
    IF Head(x) > 0
    THEN <<Head(x) - 1>> \o Tail(x)
    ELSE <<Base - 1>> \o DecC(Tail(x))

\* x - 1, for x > 0
Dec(x) == Trim(DecC(x))

RECURSIVE DivRem(_, _)
\* quotient and remainder of x by a natural number k > 0 below 2^22
DivRem(x, k) ==
    IF x = <<>>
    THEN [q |-> <<>>, r |-> 0]
    ELSE LET hi == DivRem(Tail(x), k)
             t == hi.r * Base + Head(x)
         IN  [q |-> <<t \div k>> \o hi.q, r |-> t % k]

\* x \div k
DivSmall(x, k) == Trim(DivRem(x, k).q)

RECURSIVE Less(_, _)
\* x < y
Less(x, y) ==
    IF Len(x) # Len(y)
    THEN Len(x) < Len(y)
    ELSE IF x = <<>>
         THEN FALSE
         ELSE LET n == Len(x)
              IN  IF x[n] # y[n]
                  THEN x[n] < y[n]
                  ELSE Less(SubSeq(x, 1, n - 1), SubSeq(y, 1, n - 1))

\* 2^64
TwoTo64 == <<0, 0, 0, 0, 0, 0, 0, 0, 1>>
\* u64::MAX
U64_MAX == Dec(TwoTo64)
\* x modulo 2^64: what a wrapping u64 operation keeps
Low64(x) == Trim(SubSeq(x, 1, IF Len(x) < Len(U64_MAX) THEN Len(x) ELSE Len(U64_MAX)))
\* f64 `as u64`: a value above u64::MAX saturates
AsU64(x) == IF Less(U64_MAX, x) THEN U64_MAX ELSE x

----------------------------------------------------------------------------
(* retry_enumerators/mod.rs: the free functions, applied on their own. *)

\* Gaps within [MIN_DURATION, MAX_DURATION], ms.
ValidGaps == (0..MaxSmall) \cup {MAX_DURATION - 1, MAX_DURATION}
\* Randomness values of [0, 1), in percent.
Percent == {0, 1, DEFAULT_RANDOMNESS, 50, 75, 99}
\* Gaps of the whole range of Duration::as_millis (a u128), as digits: the
\* valid ones, 120 s + 1 ms, 2^63, 2^64, 2^65 and Duration::MAX
\* (u64::MAX s + 999 ms).
WideGaps ==
    {Nat2L(g) : g \in ValidGaps \cup {MAX_DURATION + 1}}
        \cup {DivSmall(TwoTo64, 2), TwoTo64, MulSmall(TwoTo64, 2),
              Add(MulSmall(U64_MAX, 1000), Nat2L(999))}

\* A variant of get_random_interval whose lower clamp yields u64::MAX, like
\* the upper one.
get_random_interval_u128_symmetric(gap_ms, r) ==
    LET temp_max == MulSmall(gap_ms, 100 + r)
        temp_min == MulSmall(gap_ms, 100 - r)
        u64_max == MulSmall(TwoTo64, 100)
        max_r == IF Less(u64_max, temp_max)
                 THEN U64_MAX
                 ELSE AsU64(DivSmall(Add(temp_max, Nat2L(50)), 100))
        min_r == IF Less(u64_max, temp_min)
                 THEN U64_MAX
                 ELSE AsU64(DivSmall(Add(temp_min, Nat2L(50)), 100))
    IN  <<min_r, max_r>>

\* get_random_interval for a gap of any size, given by its digits; the window
\* is returned as digits.  temp_max, temp_min and u64_max are held in
\* hundredths; `u64::MAX as f64` is 2^64; the products are taken exactly (the
\* f64 rounding of a product near 2^64 is below the steps of WideGaps).
\* (u64::MIN as f64 * 0.6) as u64 is 0.
get_random_interval_u128(gap_ms, r) ==
    LET temp_max == MulSmall(gap_ms, 100 + r)
        temp_min == MulSmall(gap_ms, 100 - r)
        u64_max == MulSmall(TwoTo64, 100)
        max_r == IF Less(u64_max, temp_max)
                 THEN U64_MAX
                 ELSE AsU64(DivSmall(Add(temp_max, Nat2L(50)), 100))
        min_r == IF Less(u64_max, temp_min)
                 THEN Nat2L(0)
                 ELSE AsU64(DivSmall(Add(temp_min, Nat2L(50)), 100))
    IN  <<min_r, max_r>>

\* A call of get_random_interval with a gap the model holds as an integer.
Call_get_random_interval ==
    /\ \E gap \in ValidGaps \cup {MAX_DURATION + 1}, r \in Percent :
         call' = [fn |-> "get_random_interval", args |-> <<gap, r>>,
                  out |-> get_random_interval(gap, r)]
    /\ UNCHANGED <<Instance, other>>

\* A call of get_random_interval with a gap of any size.
Call_get_random_interval_u128 ==
    /\ \E gap_ms \in WideGaps, r \in Percent :
         call' = [fn |-> "get_random_interval_u128", args |-> <<gap_ms, r>>,
                  out |-> get_random_interval_u128(gap_ms, r)]
    /\ UNCHANGED <<Instance, other>>


----------------------------------------------------------------------------
(* sql_exponential_interval_enumerator.rs after a long run of calls.       *)
(*                                                                         *)
(* An instance with min < max whose every draw d satisfies min + 3*d > max *)
(* accepts its first candidate (min) and rejects every later one, while    *)
(* each call advances internal_counter: after n >= 1 calls it has          *)
(* current = min and internal_counter = n + 1 (RejectedRunIsClosed below). *)
(* The runs of MaxCalls calls do not reach the counters at which the u64   *)
(* product of next_interval matters; such a state is entered directly.     *)

\* Numbers of move_next calls made since construction: short runs, and runs
\* that end next to the counters 12398503 and 13861948 at which
\* (counter^2 - 1) * d passes 2^64 for d = 120000 and d = 96000.
LongRuns == (1..MaxCalls) \cup {12398501, 12398502, 13861946, 13861947, 2147483645}

\* The states such runs end in: configuration, draw of the next call, counter.
LongRunStates ==
    {s \in [gap : {1, 2, MAX_DURATION}, r : {0, DEFAULT_RANDOMNESS},
            max : Durations, min : Durations, n : LongRuns, rnd : 0..1] :
        /\ validate(s.gap, s.max, s.min) = "Ok"
        /\ s.min < s.max
        /\ s.min + 3 * get_random_interval(s.gap, s.r)[1] > s.max}

\* The draw of a state: the least (rnd = 0) or the greatest (rnd = 1) value
\* of its window.
DrawOf(s) ==
    LET w == get_random_interval(s.gap, s.r)
    IN  IF s.rnd = 0 \/ w[1] = w[2] THEN w[1] ELSE w[2] - 1

\* next_interval with its u64 arithmetic: whether `exponent * random`
\* (line 69) exceeds u64::MAX, the product modulo 2^64, and the new counter.
\* internal_counter.pow(2) is below 2^64 for every counter of the model.
Exponential_next_interval_u64(counter, min, rnd) ==
    LET exponent == Dec(Mul(Nat2L(counter), Nat2L(counter)))
        product == MulSmall(exponent, rnd)
    IN  [overflow |-> Less(U64_MAX, product),
         delta |-> Low64(product),
         internal_counter |-> counter + 1]

\* move_next with the u64 arithmetic: the set of outcomes.  When the product
\* overflows, a build with overflow checks panics and a build without them
\* goes on with the wrapped product.
Exponential_move_next_u64(cur, counter, max, min, rnd) ==
    IF cur < max
    THEN LET n == Exponential_next_interval_u64(counter, min, rnd)
             new_time == Add(Nat2L(min), n.delta)
             wrapped ==
                 IF ~Less(Nat2L(max), new_time)
                 THEN [panic |-> FALSE, overflow |-> n.overflow, ret |-> TRUE,
                       current |-> L2Nat(new_time),
                       internal_counter |-> n.internal_counter]
                 ELSE [panic |-> FALSE, overflow |-> n.overflow, ret |-> FALSE,
                       current |-> cur,
                       internal_counter |-> n.internal_counter]
         IN  IF n.overflow
             THEN {[panic |-> TRUE, overflow |-> TRUE, ret |-> FALSE,
                    current |-> cur, internal_counter |-> counter],
                   wrapped}
             ELSE {wrapped}
    ELSE {[panic |-> FALSE, overflow |-> FALSE, ret |-> FALSE, current |-> cur,
           internal_counter |-> counter]}

\* The move_next call that follows a run of s.n calls.
Call_Exponential_move_next ==
    /\ \E s \in LongRunStates :
         \E o \in Exponential_move_next_u64(s.min, s.n + 1, s.max, s.min, DrawOf(s)) :
             call' = [fn |-> "Exponential_move_next", args |-> s, out |-> o]
    /\ UNCHANGED <<Instance, other>>

----------------------------------------------------------------------------
(* ensure_in_range, and the constructor of the fixed enumerator with gaps  *)
(* beyond MAX_DURATION.                                                    *)

\* A variant of ensure_in_range without the guard against the min.
ensure_in_range_max_only(min, max, value) ==
    IF value <= max THEN {value} ELSE ((8 * max) \div 10) .. max

\* ensure_in_range: the set of values the call may return, in ms.  Above the
\* max the value is rand * (max_ms * 0.2) + max_ms * 0.8 with rand of [0, 1),
\* truncated by `as u64`: any whole number from the truncated 0.8 * max_ms up
\* to max_ms (which the f64 sum reaches by rounding when rand is next to 1).
ensure_in_range(min, max, value) ==
    LET guarded_max == IF value <= max
                       THEN {value}
                       ELSE ((8 * max) \div 10) .. max
    IN  {IF g < min THEN min ELSE g : g \in guarded_max}

Call_ensure_in_range ==
    /\ \E min \in 0..MaxSmall, max \in 0..MaxSmall, value \in 0..MaxSmall :
         \E o \in ensure_in_range(min, max, value) :
             call' = [fn |-> "ensure_in_range", args |-> <<min, max, value>>,
                      out |-> o]
    /\ UNCHANGED <<Instance, other>>

\* SqlFixedIntervalEnumerator::new with a gap within or beyond MAX_DURATION.
Call_Fixed_new ==
    \E gap \in ValidGaps \cup {MAX_DURATION + 1, 10 * MAX_DURATION} : Fixed_new(gap)

\* The free functions and the constructors applied on their own, to arguments
\* of their whole range; a behaviour makes one such call.
NextFn ==
    /\ kind = "none"
    /\ call = NoCall
    /\ \/ Call_get_random_interval
       \/ Call_get_random_interval_u128
       \/ Call_Exponential_move_next
       \/ Call_ensure_in_range
       \/ Call_Fixed_new

SpecFn == Init /\ [][NextFn]_vars

----------------------------------------------------------------------------
(* Two instances: the one above and a clone of it (#[derive(Clone)] copies *)
(* every field), each driven by its own caller in any interleaving.        *)

\* Durations tried as min and max when two instances are driven.
TwoDurations == 0..(MaxGap + 2)

\* The first instance is built with a degenerate window.
Two_New ==
    \/ \E gap \in 0..MaxGap, max \in TwoDurations, min \in TwoDurations :
         /\ validate(gap, max, min) = "Ok"
         /\ \/ Incremental_new_random(gap, max, min, 0)
            \/ Exponential_new_random(gap, max, min, 0)
    \/ \E gap \in 0..MaxGap : Fixed_new_random(gap, 0)
    \/ None_new

\* clone(): a second instance with a copy of every field of the first.
Clone ==
    /\ kind # "none"
    /\ result = "Ok"
    /\ other = NoInstance
    /\ other' = [kind |-> kind,
                 max_time_interval |-> max_time_interval,
                 min_time_interval |-> min_time_interval,
                 min_random |-> min_random,
                 max_random |-> max_random,
                 current |-> current,
                 internal_counter |-> internal_counter,
                 lastRet |-> FALSE,
                 ops |-> 0,
                 solo |-> [current |-> current,
                           internal_counter |-> internal_counter]]
    /\ UNCHANGED <<Instance, call>>

\* move_next of an instance of kind k with the fields f: the value returned,
\* the new current and the new counter.
Any_move_next(k, f, cur, counter, rnd) ==
    CASE k = "Incremental" ->
             LET r == Incremental_move_next(cur, f.max_time_interval,
                                            f.min_time_interval, rnd)
             IN  [ret |-> r.ret, current |-> r.current,
                  internal_counter |-> counter]
      [] k = "Exponential" ->
             Exponential_move_next(cur, counter, f.max_time_interval,
                                   f.min_time_interval, rnd)
      [] k = "Fixed" ->
             LET r == Fixed_move_next(cur, rnd)
             IN  [ret |-> r.ret, current |-> r.current,
                  internal_counter |-> counter]
      [] OTHER ->
             [ret |-> None_move_next, current |-> None_current,
              internal_counter |-> counter]

\* reset of an instance of kind k: the new current and the new counter.
Any_reset(k, counter) ==
    CASE k = "Incremental" ->
             [current |-> Incremental_reset, internal_counter |-> counter]
      [] k = "Exponential" -> Exponential_reset
      [] k = "Fixed" -> [current |-> Fixed_reset, internal_counter |-> counter]
      [] OTHER -> [current |-> None_current, internal_counter |-> counter]

\* A variant of the clone's move_next in which the clone shares current with
\* the first instance.
Other_MoveNext_shared_current ==
    /\ other # NoInstance
    /\ other.ops < MaxCalls
    /\ \E rnd \in get_random(other.min_random, other.max_random) :
         LET r == Any_move_next(other.kind, other, other.current,
                                other.internal_counter, rnd)
             a == Any_move_next(other.kind, other, other.solo.current,
                                other.solo.internal_counter, rnd)
         IN  /\ other' = [other EXCEPT
                             !.current = r.current,
                             !.internal_counter = r.internal_counter,
                             !.lastRet = r.ret,
                             !.ops = @ + 1,
                             !.solo = [current |-> a.current,
                                       internal_counter |-> a.internal_counter]]
             /\ current' = r.current
    /\ UNCHANGED <<kind, result, err_param, delta_backoff_time, max_time_interval,
                   min_time_interval, randomness, min_random, max_random,
                   internal_counter, lastOp, prevOp, lastRet, before, random,
                   calls, succ, fails, call>>

\* move_next on the clone.  The field solo follows the same calls made on a
\* copy that nothing else can reach.
Other_MoveNext ==
    /\ other # NoInstance
    /\ other.ops < MaxCalls
    /\ \E rnd \in get_random(other.min_random, other.max_random) :
         LET r == Any_move_next(other.kind, other, other.current,
                                other.internal_counter, rnd)
             a == Any_move_next(other.kind, other, other.solo.current,
                                other.solo.internal_counter, rnd)
         IN  other' = [other EXCEPT
                          !.current = r.current,
                          !.internal_counter = r.internal_counter,
                          !.lastRet = r.ret,
                          !.ops = @ + 1,
                          !.solo = [current |-> a.current,
                                    internal_counter |-> a.internal_counter]]
    /\ UNCHANGED <<Instance, call>>

\* reset on the clone.
Other_Reset ==
    /\ other # NoInstance
    /\ other.ops < MaxCalls
    /\ LET r == Any_reset(other.kind, other.internal_counter)
           a == Any_reset(other.kind, other.solo.internal_counter)
       IN  other' = [other EXCEPT
                        !.current = r.current,
                        !.internal_counter = r.internal_counter,
                        !.lastRet = FALSE,
                        !.ops = @ + 1,
                        !.solo = [current |-> a.current,
                                  internal_counter |-> a.internal_counter]]
    /\ UNCHANGED <<Instance, call>>

\* The calls made on the first instance.
First_Call ==
    \/ Incremental_MoveNext
    \/ Incremental_Reset
    \/ Exponential_MoveNext
    \/ Exponential_Reset
    \/ Fixed_MoveNext
    \/ Fixed_Reset
    \/ None_MoveNext
    \/ None_Reset

NextTwo ==
    \/ Two_New
    \/ Clone
    \/ First_Call
    \/ Other_MoveNext
    \/ Other_Reset

SpecTwo == Init /\ [][NextTwo]_vars

----------------------------------------------------------------------------
(* sql_retry_interval.rs: an exponential enumerator of its own, with its   *)
(* own limits and validate.  An instance is a record of its fields.        *)

\* sql_retry_interval.rs MIN_DURATION, in ms.
Interval_MIN_DURATION == 0
\* sql_retry_interval.rs MAX_DURATION, 120 s in ms.
Interval_MAX_DURATION == 120000

\* validate: "Ok", or the parameter name of the ArgumentOutOfRange error.
Interval_validate(gap, max, min) ==
    IF min < Interval_MIN_DURATION \/ max > Interval_MAX_DURATION
    THEN "min_time_interval"
    ELSE IF max < Interval_MIN_DURATION \/ max > Interval_MAX_DURATION
    THEN "max_time_interval"
    ELSE IF gap < Interval_MIN_DURATION \/ gap > Interval_MAX_DURATION
    THEN "gap_time_interval"
    ELSE IF max < min THEN "max_time_interval"
    ELSE "Ok"

\* new_random: the instance built, or the error.  The window is computed in
\* the constructor itself; its two `> u64::MAX as f64` branches are not taken
\* by a gap that validate has accepted.
Interval_new_random(gap, max, min, r) ==
    LET v == Interval_validate(gap, max, min)
        temp_max == gap * (100 + r)
        temp_min == gap * (100 - r)
    IN  IF v = "Ok"
        THEN [kind |-> "sql_retry_interval",
              result |-> "Ok",
              internal_counter |-> 1,
              max_random |-> RoundPct(temp_max),
              min_random |-> RoundPct(temp_min),
              delta_backoff_time |-> gap,
              max_time_interval |-> max,
              min_time_interval |-> min,
              current |-> 0,
              lastRet |-> FALSE]
        ELSE [kind |-> "sql_retry_interval", result |-> v]

\* new
Interval_new(gap, max, min) == Interval_new_random(gap, max, min, 20)

\* The values the draw inside next_interval may produce.
Interval_draws(minr, maxr) ==
    IF maxr = minr THEN {minr} ELSE minr .. (maxr - 1)

\* next_interval: the new time and the advanced counter.
Interval_next_interval(counter, min, rnd) ==
    LET exponent == counter * counter - 1
        delta == exponent * rnd
    IN  [new_time |-> min + delta, internal_counter |-> counter + 1]

\* move_next: the value returned, the new current and the new counter.
Interval_move_next(cur, counter, max, min, rnd) ==
    IF cur < max
    THEN LET n == Interval_next_interval(counter, min, rnd)
         IN  IF n.new_time <= max
             THEN [ret |-> TRUE, current |-> n.new_time,
                   internal_counter |-> n.internal_counter]
             ELSE [ret |-> FALSE, current |-> cur,
                   internal_counter |-> n.internal_counter]
    ELSE [ret |-> FALSE, current |-> cur, internal_counter |-> counter]

\* reset: only the counter is written; current stays as it is.
Interval_reset(cur) == [current |-> cur, internal_counter |-> 1]

----------------------------------------------------------------------------
(* retry_enumerators2/mod.rs: the exponential enumerator behind the        *)
(* internal trait, with move_next and reset from the blanket impl.         *)

\* retry_enumerators2 MIN_DURATION, in ms.
Enumerators2_MIN_DURATION == 0
\* retry_enumerators2 MAX_DURATION, 120 s in ms.
Enumerators2_MAX_DURATION == 120000

\* get_random_interval; as above, the two clamps are not taken.
Enumerators2_get_random_interval(gap, r) ==
    LET temp_max == gap * (100 + r)
        temp_min == gap * (100 - r)
    IN  <<RoundPct(temp_min), RoundPct(temp_max)>>

\* get_random: the set of values the call may return.
Enumerators2_get_random(minr, maxr) ==
    IF maxr = minr THEN {minr} ELSE minr .. (maxr - 1)

\* validate: "Ok", or the parameter name of the ArgumentOutOfRange error.
Enumerators2_validate(gap, max, min) ==
    IF min < Enumerators2_MIN_DURATION \/ max > Enumerators2_MAX_DURATION
    THEN "min_time_interval"
    ELSE IF max < Enumerators2_MIN_DURATION \/ max > Enumerators2_MAX_DURATION
    THEN "max_time_interval"
    ELSE IF gap < Enumerators2_MIN_DURATION \/ gap > Enumerators2_MAX_DURATION
    THEN "gap_time_interval"
    ELSE IF max < min THEN "max_time_interval"
    ELSE "Ok"

\* SqlExponentialIntervalEnumerator::new_random: the instance or the error.
Enumerators2_new_random(gap, max, min, r) ==
    LET v == Enumerators2_validate(gap, max, min)
        w == Enumerators2_get_random_interval(gap, r)
    IN  IF v = "Ok"
        THEN [kind |-> "retry_enumerators2",
              result |-> "Ok",
              internal_counter |-> 1,
              max_random |-> w[2],
              min_random |-> w[1],
              max_time_interval |-> max,
              min_time_interval |-> min,
              current |-> 0,
              lastRet |-> FALSE]
        ELSE [kind |-> "retry_enumerators2", result |-> v]

\* SqlExponentialIntervalEnumerator::new
Enumerators2_new(gap, max, min) == Enumerators2_new_random(gap, max, min, 20)

\* SqlRetryIntervalInternal::next_interval: the new time and the advanced
\* counter.
Enumerators2_next_interval(counter, min, rnd) ==
    LET exponent == counter * counter - 1
        delta == exponent * rnd
    IN  [new_time |-> min + delta, internal_counter |-> counter + 1]

\* A variant of reset_hidden that writes the counter alone.
Enumerators2_reset_hidden_counter_only(cur) ==
    [current |-> cur, internal_counter |-> 1]

\* SqlRetryIntervalInternal::reset_hidden: the new current and counter.
Enumerators2_reset_hidden(cur) == [current |-> 0, internal_counter |-> 1]

\* The blanket move_next: the value returned, current (through set_current)
\* and the counter (through next_interval).
Enumerators2_move_next(cur, counter, max, min, rnd) ==
    IF cur < max
    THEN LET n == Enumerators2_next_interval(counter, min, rnd)
         IN  IF n.new_time <= max
             THEN [ret |-> TRUE, current |-> n.new_time,
                   internal_counter |-> n.internal_counter]
             ELSE [ret |-> FALSE, current |-> cur,
                   internal_counter |-> n.internal_counter]
    ELSE [ret |-> FALSE, current |-> cur, internal_counter |-> counter]

\* The blanket reset.
Enumerators2_reset(cur) == Enumerators2_reset_hidden(cur)

----------------------------------------------------------------------------
(* A pair of exponential enumerators built from the same arguments: the    *)
(* one of retry_enumerators in the instance variables, and one of another  *)
(* module in `other`.  Every call is made on both, with the same draw.     *)

\* Durations tried as min and max of a pair.
PairDurations == 0..MaxSmall

\* The constructor of the retry_enumerators instance, on arguments its
\* validate accepts, together with the constructor that gives `second`.
Pair_new_random(gap, max, min, r, second) ==
    LET w == get_random_interval(gap, r)
    IN  /\ kind = "none"
        /\ validate(gap, max, min) = "Ok"
        /\ kind' = "Exponential"
        /\ result' = "Ok"
        /\ err_param' = ""
        /\ delta_backoff_time' = gap
        /\ max_time_interval' = max
        /\ min_time_interval' = min
        /\ randomness' = r
        /\ min_random' = w[1]
        /\ max_random' = w[2]
        /\ internal_counter' = 1
        /\ other' = second
        /\ lastOp' = "new"
        /\ prevOp' = lastOp
        /\ UNCHANGED <<lastRet, before, random, calls, succ, fails, current,
                       call>>

Pair_New_Interval ==
    \E gap \in 0..MaxGap, max \in PairDurations, min \in PairDurations,
       r \in Randomness :
        Pair_new_random(gap, max, min, r, Interval_new_random(gap, max, min, r))

Pair_New_Enumerators2 ==
    \E gap \in 0..MaxGap, max \in PairDurations, min \in PairDurations,
       r \in Randomness :
        Pair_new_random(gap, max, min, r,
                        Enumerators2_new_random(gap, max, min, r))

\* move_next of the second instance, by its module.
Second_move_next(rnd) ==
    IF other.kind = "sql_retry_interval"
    THEN Interval_move_next(other.current, other.internal_counter,
                            other.max_time_interval, other.min_time_interval,
                            rnd)
    ELSE Enumerators2_move_next(other.current, other.internal_counter,
                                other.max_time_interval,
                                other.min_time_interval, rnd)

\* reset of the second instance, by its module.
Second_reset ==
    IF other.kind = "sql_retry_interval"
    THEN Interval_reset(other.current)
    ELSE Enumerators2_reset(other.current)

\* The values the second instance may draw, by its module.
Second_draws ==
    IF other.kind = "sql_retry_interval"
    THEN Interval_draws(other.min_random, other.max_random)
    ELSE Enumerators2_get_random(other.min_random, other.max_random)

\* Both instances were built.
Paired ==
    /\ kind = "Exponential"
    /\ result = "Ok"
    /\ other # NoInstance
    /\ other.result = "Ok"

\* move_next on both instances, with the same draw.
Pair_MoveNext ==
    /\ Paired
    /\ calls < MaxCalls
    /\ \E rnd \in get_random(min_random, max_random) \cap Second_draws :
         LET r == Exponential_move_next(current, internal_counter,
                                        max_time_interval, min_time_interval,
                                        rnd)
             s == Second_move_next(rnd)
         IN  /\ current' = r.current
             /\ internal_counter' = r.internal_counter
             /\ other' = [other EXCEPT
                             !.current = s.current,
                             !.internal_counter = s.internal_counter,
                             !.lastRet = s.ret]
             /\ lastOp' = "move_next"
             /\ prevOp' = lastOp
             /\ lastRet' = r.ret
             /\ before' = current
             /\ random' = rnd
             /\ calls' = calls + 1
             /\ succ' = IF r.ret THEN succ + 1 ELSE succ
             /\ fails' = IF r.ret THEN fails ELSE fails + 1
    /\ UNCHANGED <<Config, call>>

\* reset on both instances.
Pair_Reset ==
    /\ Paired
    /\ LET s == Second_reset
       IN  other' = [other EXCEPT
                        !.current = s.current,
                        !.internal_counter = s.internal_counter,
                        !.lastRet = FALSE]
    /\ current' = Exponential_reset.current
    /\ internal_counter' = Exponential_reset.internal_counter
    /\ lastOp' = "reset"
    /\ prevOp' = lastOp
    /\ lastRet' = FALSE
    /\ before' = current
    /\ random' = NoDraw
    /\ calls' = 0
    /\ succ' = 0
    /\ fails' = 0
    /\ UNCHANGED <<Config, call>>

NextPair ==
    \/ Pair_New_Interval
    \/ Pair_New_Enumerators2
    \/ Pair_MoveNext
    \/ Pair_Reset

SpecPair == Init /\ [][NextPair]_vars

----------------------------------------------------------------------------
(* Shorthands used by the properties below. *)

Constructed == kind \in {"Incremental", "Exponential"}
Degenerate == min_random = max_random
\* The last call was a move_next and no earlier move_next since construction
\* or the last reset returned false.
FirstRunCall ==
    /\ lastOp = "move_next"
    /\ (fails = 0 \/ (fails = 1 /\ ~lastRet))
\* 0 <= min <= max <= 120 s and 0 <= gap <= 120 s, for the constructor's arguments.
LegalArguments ==
    /\ MIN_DURATION <= min_time_interval
    /\ min_time_interval <= max_time_interval
    /\ max_time_interval <= MAX_DURATION
    /\ MIN_DURATION <= delta_backoff_time
    /\ delta_backoff_time <= MAX_DURATION

----------------------------------------------------------------------------
(* C1: constructing an Incremental or an Exponential enumerator returns Ok  *)
(* exactly when 0 <= min <= max <= 120 s and 0 <= gap <= 120 s; every other *)
(* input returns ArgumentOutOfRange and leaves no instance on which         *)
(* move_next or reset is ever called.                                       *)
C1_ConstructionOkIffLegal ==
    Constructed =>
        /\ result \in {"Ok", "ArgumentOutOfRange"}
        /\ (result = "Ok") <=> LegalArguments
        /\ (result = "ArgumentOutOfRange") =>
               /\ lastOp = "new"
               /\ calls = 0
               /\ ~ENABLED Incremental_MoveNext
               /\ ~ENABLED Exponential_MoveNext

\* A constructor has rejected arguments each within [0, 120 s] but with max < min.
C1_Witness ==
    /\ Constructed
    /\ result = "ArgumentOutOfRange"
    /\ min_time_interval <= MAX_DURATION
    /\ delta_backoff_time <= MAX_DURATION
    /\ max_time_interval < min_time_interval

(* C2: for an Incremental enumerator with a degenerate window (every draw   *)
(* is d), the k-th move_next of an unbroken run of successes since          *)
(* construction or reset returns true exactly when min + (k-1)*d <= max,    *)
(* then sets current to min + (k-1)*d, and otherwise leaves current alone.  *)
C2_IncrementalArithmeticSequence ==
    (kind = "Incremental" /\ Degenerate /\ FirstRunCall) =>
        LET v == min_time_interval + (calls - 1) * min_random
        IN  /\ lastRet <=> (v <= max_time_interval)
            /\ lastRet => current = v
            /\ ~lastRet => current = before

(* C3: for an Exponential enumerator the k-th move_next of a run since      *)
(* construction or reset has the candidate min + (k*k - 1)*draw_k; with a   *)
(* degenerate window (every draw is d) it returns true exactly when         *)
(* min + (k*k - 1)*d <= max, then sets current to that value, and otherwise *)
(* leaves current alone.                                                    *)
C3_ExponentialQuadraticSequence ==
    (kind = "Exponential" /\ FirstRunCall) =>
        /\ lastRet =>
               /\ random # NoDraw
               /\ current = min_time_interval + (calls * calls - 1) * random
        /\ Degenerate =>
               LET v == min_time_interval + (calls * calls - 1) * min_random
               IN  /\ lastRet <=> (v <= max_time_interval)
                   /\ lastRet => current = v
                   /\ ~lastRet => current = before

(* C4: for Incremental and Exponential enumerators, a move_next that        *)
(* returns false leaves current() exactly as it was before the call.        *)
C4_FalseLeavesCurrent ==
    (Constructed /\ lastOp = "move_next" /\ ~lastRet) => current = before

\* A move_next has drawn, had its candidate rejected, and left a non-zero current.
C4_Witness ==
    /\ Constructed
    /\ lastOp = "move_next"
    /\ ~lastRet
    /\ random # NoDraw
    /\ before > 0
    /\ current = before

(* C5: for an Incremental enumerator the first move_next after construction *)
(* or reset returns true and sets current() to exactly min.                 *)
C5_IncrementalFirstStepIsMin ==
    (kind = "Incremental" /\ lastOp = "move_next" /\ calls = 1) =>
        (lastRet /\ current = min_time_interval)

(* C6: for an Exponential enumerator the first move_next after construction *)
(* or reset returns true and sets current() to exactly min.                 *)
C6_ExponentialFirstStepIsMin ==
    (kind = "Exponential" /\ lastOp = "move_next" /\ calls = 1) =>
        (lastRet /\ current = min_time_interval)

(* C7: for an Incremental enumerator, once a move_next has returned false,  *)
(* no later move_next returns true until reset is called.                   *)
C7_IncrementalExhaustedAbsorbs ==
    (kind = "Incremental" /\ lastOp = "move_next" /\ lastRet) => fails = 0

(* C8: for an Exponential enumerator, once a move_next has returned false,  *)
(* no later move_next returns true until reset is called.                   *)
C8_ExponentialExhaustedAbsorbs ==
    (kind = "Exponential" /\ lastOp = "move_next" /\ lastRet) => fails = 0

(* C9: for an Incremental enumerator, between two resets the values of      *)
(* current() after successive successful move_next calls never decrease.    *)
C9_IncrementalMonotone ==
    (kind = "Incremental" /\ lastOp = "move_next" /\ lastRet) => current >= before

\* A second or later successful move_next has grown current by a draw from a
\* non-degenerate window.
C9_Witness ==
    /\ kind = "Incremental"
    /\ lastOp = "move_next"
    /\ lastRet
    /\ succ >= 2
    /\ ~Degenerate
    /\ random # NoDraw
    /\ current > before

(* C10: for an Exponential enumerator, between two resets the values of     *)
(* current() after successive successful move_next calls never decrease.    *)
C10_ExponentialMonotone ==
    (kind = "Exponential" /\ lastOp = "move_next" /\ lastRet) => current >= before

----------------------------------------------------------------------------
\* The window always draws 0 and current lies in [min, max): the candidate of
\* a move_next is current (incremental) or min (exponential), which is accepted
\* and leaves the enumerator in such a state again.
EndlessRun ==
    /\ Constructed
    /\ result = "Ok"
    /\ min_random = 0
    /\ max_random = 0
    /\ min_time_interval <= current
    /\ current < max_time_interval

\* From an EndlessRun state every move_next returns true and ends in an
\* EndlessRun state.
EndlessRunIsClosed ==
    [][(EndlessRun /\ lastOp' = "move_next") => (lastRet' /\ EndlessRun')]_vars

(* C11: for Incremental and Exponential enumerators with a validated        *)
(* configuration, move_next called repeatedly without reset eventually      *)
(* returns false; so no state is reached in which a move_next has returned  *)
(* true and every later move_next returns true as well.                     *)
C11_MoveNextEventuallyFalse ==
    ~(EndlessRun /\ lastOp = "move_next" /\ lastRet)

(* C12: for Incremental and Exponential enumerators, a move_next called     *)
(* with current < max whose candidate equals max returns true and sets      *)
(* current to max.                                                          *)
C12_CandidateEqualMaxAccepted ==
    LET candidate ==
            IF kind = "Incremental"
            THEN Incremental_next_interval(before, min_time_interval, random)
            ELSE Exponential_next_interval(internal_counter - 1,
                                           min_time_interval, random).new_time
    IN  (/\ Constructed
         /\ result = "Ok"
         /\ lastOp = "move_next"
         /\ before < max_time_interval
         /\ candidate = max_time_interval)
        => (lastRet /\ current = max_time_interval)

\* An Incremental move_next has added a non-zero draw to a non-zero current
\* and landed exactly on max.
C12_Witness ==
    /\ kind = "Incremental"
    /\ lastOp = "move_next"
    /\ lastRet
    /\ 0 < before
    /\ before < max_time_interval
    /\ random > 0
    /\ before + random = max_time_interval
    /\ current = max_time_interval

(* C13: for each of the four enumerators, a reset made right after a reset  *)
(* changes nothing: current, the exponential counter and the configuration  *)
(* (hence every later move_next) are as the first reset left them.          *)
C13_ResetIdempotent ==
    [][(lastOp = "reset" /\ lastOp' = "reset") =>
          /\ current' = current
          /\ internal_counter' = internal_counter
          /\ Config' = Config
          /\ calls' = calls]_vars

\* An Exponential enumerator has been reset twice in a row.
C13_Witness ==
    /\ kind = "Exponential"
    /\ prevOp = "reset"
    /\ lastOp = "reset"
    /\ current = 0
    /\ internal_counter = 1

(* C14: a None enumerator is always constructed; after any sequence of      *)
(* move_next and reset calls current() is 0, every move_next has returned   *)
(* true, and a reset has left current() as it was.                          *)
C14_NoneNeverWaitsNeverStops ==
    (kind = "None") =>
        /\ result = "Ok"
        /\ current = 0
        /\ fails = 0
        /\ (lastOp = "move_next") => lastRet
        /\ (lastOp = "reset") => current = before

\* A None enumerator has answered a move_next made after a reset.
C14_Witness ==
    /\ kind = "None"
    /\ prevOp = "reset"
    /\ lastOp = "move_next"
    /\ lastRet
    /\ current = 0

(* C15: for a Fixed enumerator, move_next returns true in every reachable   *)
(* state, after any number of earlier move_next and reset calls.            *)
C15_FixedNeverExhausts ==
    (kind = "Fixed") =>
        /\ result = "Ok"
        /\ fails = 0
        /\ (lastOp = "move_next") => lastRet

\* A Fixed enumerator has returned true for a third call in a row that drew
\* the interval it already had.
C15_Witness ==
    /\ kind = "Fixed"
    /\ lastOp = "move_next"
    /\ lastRet
    /\ calls >= 3
    /\ current = before

(* C16: for a Fixed enumerator, after every move_next current() is the draw *)
(* just taken from the window, whatever current was before: min_random when *)
(* min_random = max_random, and otherwise a value with                      *)
(* min_random <= current < max_random.                                      *)
C16_FixedCurrentIsFreshDraw ==
    (kind = "Fixed" /\ lastOp = "move_next") =>
        /\ random # NoDraw
        /\ current = random
        /\ IF min_random = max_random
           THEN current = min_random
           ELSE min_random <= current /\ current < max_random

\* A Fixed enumerator with a window of several values has drawn, right after
\* a reset, the largest value below max_random.
C16_Witness ==
    /\ kind = "Fixed"
    /\ prevOp = "reset"
    /\ lastOp = "move_next"
    /\ min_random < max_random - 1
    /\ current = max_random - 1

(* C17: for an Exponential enumerator, internal_counter is 1 after          *)
(* construction and after reset, and every move_next call increases it by   *)
(* exactly 1, whether it returns true or false, calls made when current has *)
(* already reached max included: the counter is one more than the number of *)
(* move_next calls since construction or reset.                             *)
C17_CounterCountsEveryCall ==
    (kind = "Exponential" /\ result = "Ok") => internal_counter = calls + 1

(* C17, amended: internal_counter is 1 after construction and after reset;  *)
(* a move_next called with current < max increases it by exactly 1, whether *)
(* the candidate is accepted or rejected; a move_next called when current   *)
(* has reached max leaves it unchanged.                                     *)
C17_CounterCountsEveryCandidate ==
    [][(kind' = "Exponential" /\ result' = "Ok") =>
          /\ (lastOp' \in {"new", "reset"}) => internal_counter' = 1
          /\ (lastOp' = "move_next") =>
                 internal_counter' =
                     IF current < max_time_interval
                     THEN internal_counter + 1
                     ELSE internal_counter]_vars

\* An Exponential move_next has been called with current at max > 0, and the
\* counter is behind the number of calls.
C17_Witness ==
    /\ kind = "Exponential"
    /\ lastOp = "move_next"
    /\ ~lastRet
    /\ before = max_time_interval
    /\ max_time_interval > 0
    /\ internal_counter < calls + 1

(* C18: for an Incremental enumerator, move_next returns true and commits   *)
(* the value exactly when next_interval() (min if current < min, else       *)
(* current + draw) is <= max, and returns false otherwise, with no other    *)
(* condition on current.  Where the call took no draw the window is         *)
(* degenerate and the draw is its only value.                               *)
C18_TrueIffCandidateWithinMax ==
    (/\ kind = "Incremental"
     /\ result = "Ok"
     /\ lastOp = "move_next"
     /\ (random # NoDraw \/ before < min_time_interval \/ Degenerate)) =>
        LET draw == IF random # NoDraw THEN random ELSE min_random
            next == Incremental_next_interval(before, min_time_interval, draw)
        IN  lastRet <=> (next <= max_time_interval)

(* C18, amended: for an Incremental enumerator, move_next returns true      *)
(* exactly when current < max and next_interval() <= max, and then commits  *)
(* that value; otherwise it returns false and leaves current unchanged.     *)
C18_TrueIffBelowMaxAndCandidateWithinMax ==
    (kind = "Incremental" /\ result = "Ok" /\ lastOp = "move_next") =>
        LET next == Incremental_next_interval(before, min_time_interval, random)
        IN  /\ lastRet <=> (before < max_time_interval /\ next <= max_time_interval)
            /\ lastRet => current = next
            /\ ~lastRet => current = before

\* An Incremental move_next has returned false at current = max > 0 although
\* every draw is 0, so that current + draw <= max.
C18_Witness ==
    /\ kind = "Incremental"
    /\ lastOp = "move_next"
    /\ ~lastRet
    /\ before = max_time_interval
    /\ max_time_interval > 0
    /\ min_random = 0
    /\ max_random = 0

(* C19: for Incremental and Exponential enumerators, in every state reached *)
(* by move_next and reset calls, current <= max <= 120 s, and current is 0  *)
(* (as it is when no move_next has succeeded since construction or reset)   *)
(* or at least min.                                                         *)
C19_CurrentWithinBounds ==
    (Constructed /\ result = "Ok") =>
        /\ current <= max_time_interval
        /\ max_time_interval <= MAX_DURATION
        /\ current = 0 \/ current >= min_time_interval
        /\ (succ = 0) => current = 0

\* An Exponential enumerator with min > 0 has advanced beyond min and stands
\* on max after a rejected call.
C19_Witness ==
    /\ kind = "Exponential"
    /\ lastOp = "move_next"
    /\ ~lastRet
    /\ 0 < min_time_interval
    /\ min_time_interval < current
    /\ current = max_time_interval

(* C20: for every enumerator, reset returns it to the state of a freshly    *)
(* constructed instance with the same configuration: current = 0, for       *)
(* Exponential internal_counter = 1, the configuration (arguments and       *)
(* window) untouched and the window still the one the constructor computes. *)
C20_ResetRestoresInitial ==
    [][(lastOp' = "reset") =>
          /\ current' = 0
          /\ (kind = "Exponential") => internal_counter' = 1
          /\ (kind # "Exponential") => internal_counter' = 0
          /\ Config' = Config
          /\ <<min_random', max_random'>> =
                 get_random_interval(delta_backoff_time', randomness')
          /\ calls' = 0]_vars

\* An Exponential enumerator that had advanced (current > 0, counter > 1) has
\* just been reset.
C20_Witness ==
    /\ kind = "Exponential"
    /\ lastOp = "reset"
    /\ prevOp = "move_next"
    /\ before > 0
    /\ current = 0
    /\ internal_counter = 1

(* C21: the interval configuration of an enumerator (min, max and the       *)
(* window min_random/max_random, with the gap and randomness they come      *)
(* from) is set at construction and left unchanged by every move_next and   *)
(* every reset, whether the call succeeds or not.                           *)
C21_ConfigurationIsFrozen ==
    [][(lastOp' \in {"move_next", "reset"}) => Config' = Config]_vars

\* An Incremental enumerator with min > 0 and a window of several values has
\* had a move_next rejected and still holds that configuration.
C21_Witness ==
    /\ kind = "Incremental"
    /\ lastOp = "move_next"
    /\ ~lastRet
    /\ min_time_interval > 0
    /\ min_random < max_random
    /\ <<min_random, max_random>> =
           get_random_interval(delta_backoff_time, randomness)

(* C22: for an Incremental enumerator, a successful move_next taken from a  *)
(* state with current >= min increases current by exactly one draw from the *)
(* window: new current - old current lies in [min_random, max_random], and  *)
(* equals min_random when the window is degenerate.                         *)
C22_IncrementalStepIsOneDraw ==
    (/\ kind = "Incremental"
     /\ lastOp = "move_next"
     /\ lastRet
     /\ before >= min_time_interval) =>
        /\ random # NoDraw
        /\ current - before = random
        /\ min_random <= current - before
        /\ current - before <= max_random
        /\ Degenerate => current - before = min_random

\* An Incremental enumerator with a window of several values has stepped from
\* a non-zero current >= min by a non-zero draw.
C22_Witness ==
    /\ kind = "Incremental"
    /\ lastOp = "move_next"
    /\ lastRet
    /\ before > 0
    /\ before >= min_time_interval
    /\ min_random < max_random
    /\ current - before > min_random

(* C28: when validate rejects a configuration, the parameter named by the   *)
(* ArgumentOutOfRange error violates its constraint: min_time_interval only *)
(* when min is out of [0, 120 s], max_time_interval when max is out of      *)
(* [0, 120 s] or max < min, gap_time_interval when gap is out of [0, 120 s].*)
C28_ErrorNamesViolatingParameter ==
    (Constructed /\ result = "ArgumentOutOfRange") =>
        /\ err_param \in {"min_time_interval", "max_time_interval",
                          "gap_time_interval"}
        /\ (err_param = "min_time_interval") =>
               (min_time_interval < MIN_DURATION \/ min_time_interval > MAX_DURATION)
        /\ (err_param = "max_time_interval") =>
               \/ max_time_interval < MIN_DURATION
               \/ max_time_interval > MAX_DURATION
               \/ max_time_interval < min_time_interval
        /\ (err_param = "gap_time_interval") =>
               (delta_backoff_time < MIN_DURATION \/ delta_backoff_time > MAX_DURATION)

\* What a move_next must return and leave in current when the draw is d, by the
\* state before the call: the value every instance with this configuration and
\* this history computes.
OutcomeWithDraw(d) ==
    CASE kind = "Incremental" ->
             LET r == Incremental_move_next(before, max_time_interval,
                                            min_time_interval, d)
             IN  <<r.ret, r.current>>
      [] kind = "Exponential" ->
             LET c == IF before < max_time_interval
                      THEN internal_counter - 1
                      ELSE internal_counter
                 r == Exponential_move_next(before, c, max_time_interval,
                                            min_time_interval, d)
             IN  <<r.ret, r.current>>
      [] kind = "Fixed" ->
             LET r == Fixed_move_next(before, d)
             IN  <<r.ret, r.current>>
      [] OTHER -> <<None_move_next, None_current>>

(* C26: with a degenerate window an enumerator is deterministic: what a     *)
(* move_next returns and the current() it leaves are fixed by the           *)
(* configuration and the calls made so far (the only value ever drawn is    *)
(* min_random), and so is the state after a reset; two instances with the   *)
(* same configuration and the same calls therefore agree at every step.     *)
C26_DegenerateWindowIsDeterministic ==
    (kind # "none" /\ result = "Ok" /\ Degenerate) =>
        /\ get_random(min_random, max_random) = {min_random}
        /\ (lastOp = "move_next") =>
               /\ random \in {NoDraw, min_random}
               /\ <<lastRet, current>> = OutcomeWithDraw(min_random)
        /\ (lastOp \in {"new", "reset"}) =>
               /\ current = 0
               /\ (kind = "Exponential") => internal_counter = 1

\* An Exponential enumerator whose window holds the single value d > 0 has
\* accepted a candidate beyond min on its second or later call in a row.
C26_Witness ==
    /\ kind = "Exponential"
    /\ Degenerate
    /\ min_random > 0
    /\ lastOp = "move_next"
    /\ prevOp = "move_next"
    /\ lastRet
    /\ random = min_random
    /\ current > min_time_interval

(* C25: for every valid gap (0 to 120000 ms) and every randomness r of      *)
(* [0, 1), the window satisfies min_random <= gap_ms <= max_random, so      *)
(* get_random is never asked for an empty range; with r = 0 the window is   *)
(* degenerate and every draw equals gap_ms.                                 *)
C25_WindowContainsGap ==
    (/\ call.fn = "get_random_interval"
     /\ call.args[1] <= MAX_DURATION
     /\ call.args[2] < 100) =>
        LET gap == call.args[1]
            r == call.args[2]
            lo == call.out[1]
            hi == call.out[2]
        IN  /\ lo <= gap
            /\ gap <= hi
            /\ get_random(lo, hi) # {}
            /\ \A d \in get_random(lo, hi) : lo <= d /\ d <= hi
            /\ (r = 0) => (lo = gap /\ hi = gap /\ get_random(lo, hi) = {gap})

\* The window of a 120 s gap with randomness 0.99 has been computed: it lies
\* strictly on both sides of the gap.
C25_Witness ==
    /\ call.fn = "get_random_interval"
    /\ call.args = <<MAX_DURATION, 99>>
    /\ call.out[1] < MAX_DURATION
    /\ MAX_DURATION < call.out[2]

RejectedRun ==
    /\ kind = "Exponential"
    /\ result = "Ok"
    /\ internal_counter >= 2
    /\ internal_counter = calls + 1
    /\ current = min_time_interval
    /\ current < max_time_interval
    /\ min_time_interval + 3 * min_random > max_time_interval

\* From a RejectedRun state every move_next returns false, advances the
\* counter and ends in a RejectedRun state.
RejectedRunIsClosed ==
    [][(RejectedRun /\ lastOp' = "move_next") =>
          (~lastRet' /\ internal_counter' = internal_counter + 1 /\ RejectedRun')]_vars

\* On short runs the u64 move_next agrees with the move_next of the instance.
LongRunAgreesOnShortRuns ==
    (call.fn = "Exponential_move_next" /\ call.args.n <= MaxCalls) =>
        LET s == call.args
            r == Exponential_move_next(s.min, s.n + 1, s.max, s.min, DrawOf(s))
        IN  /\ ~call.out.overflow
            /\ call.out.ret = r.ret
            /\ call.out.current = r.current
            /\ call.out.internal_counter = r.internal_counter

(* C23: for a validated Exponential configuration move_next is total: no    *)
(* sequence of move_next calls, however long and including calls made after *)
(* candidates were rejected, makes the u64 computation                      *)
(* (internal_counter^2 - 1) * draw overflow or fail.                        *)
C23_ExponentialProductNeverOverflows ==
    (call.fn = "Exponential_move_next") =>
        (~call.out.overflow /\ ~call.out.panic)

(* C24: constructing a Fixed enumerator applies no range validation:        *)
(* new(gap) returns Ok for every gap, also one greater than the 120 s       *)
(* maximum, and never ArgumentOutOfRange.                                   *)
C24_FixedConstructionNeverFails ==
    (kind = "Fixed") =>
        /\ result = "Ok"
        /\ err_param = ""
        /\ <<min_random, max_random>> =
               get_random_interval(delta_backoff_time, randomness)

\* new(gap) has built a Fixed enumerator from a gap above 120 s.
C24_Witness ==
    /\ kind = "Fixed"
    /\ result = "Ok"
    /\ randomness = DEFAULT_RANDOMNESS
    /\ delta_backoff_time > MAX_DURATION
    /\ min_random < max_random

(* C30: ensure_in_range(min, max, value) with min <= max returns a duration *)
(* of [min, max]: a value of [min, max] unchanged, min for a value below    *)
(* min, and for a value above max some duration between                     *)
(* max(min, 0.8 * max) and max.                                             *)
C30_EnsureInRange ==
    (call.fn = "ensure_in_range" /\ call.args[1] <= call.args[2]) =>
        LET min == call.args[1]
            max == call.args[2]
            value == call.args[3]
        IN  /\ min <= call.out
            /\ call.out <= max
            /\ (min <= value /\ value <= max) => call.out = value
            /\ (value < min) => call.out = min
            /\ (value > max) => (10 * call.out >= 8 * max /\ call.out >= min)

(* C30, amended: as above, but for a value above max the result is a whole  *)
(* number of milliseconds between max(min, 0.8 * max_ms truncated to a      *)
(* whole number) and max.                                                   *)
C30_EnsureInRangeTruncated ==
    (call.fn = "ensure_in_range" /\ call.args[1] <= call.args[2]) =>
        LET min == call.args[1]
            max == call.args[2]
            value == call.args[3]
        IN  /\ min <= call.out
            /\ call.out <= max
            /\ (min <= value /\ value <= max) => call.out = value
            /\ (value < min) => call.out = min
            /\ (value > max) =>
                   (call.out >= (8 * max) \div 10 /\ call.out >= min)

\* A value above max has been replaced by a duration below 0.8 * max and
\* above min.
C30_Witness ==
    /\ call.fn = "ensure_in_range"
    /\ call.args[1] <= call.args[2]
    /\ call.args[3] > call.args[2]
    /\ 10 * call.out < 8 * call.args[2]
    /\ call.out > call.args[1]

C31_IntervalEquivalent ==
    (/\ Paired
     /\ other.kind = "sql_retry_interval"
     /\ Degenerate)
    => /\ other.lastRet = lastRet
       /\ other.current = current
       /\ (prevOp = "reset" /\ lastOp = "move_next")
              => (other.lastRet /\ other.current = other.min_time_interval)

(* C32: the exponential enumerator of retry_enumerators2, built from the    *)
(* same validated arguments as the one of retry_enumerators and given the   *)
(* same draws and the same move_next and reset calls, returns the same      *)
(* booleans, shows the same current() and holds the same internal_counter   *)
(* (step_count).                                                            *)
C32_Enumerators2Equivalent ==
    (/\ kind = "Exponential"
     /\ result = "Ok"
     /\ other # NoInstance
     /\ other.kind = "retry_enumerators2")
    => /\ other.result = "Ok"
       /\ other.lastRet = lastRet
       /\ other.current = current
       /\ other.internal_counter = internal_counter

\* Both enumerators, with a window of several values, have accepted a
\* candidate above min, made with a non-zero draw, after a call of the same
\* run was rejected.
C32_Witness ==
    /\ Paired
    /\ other.kind = "retry_enumerators2"
    /\ min_random < max_random
    /\ lastOp = "move_next"
    /\ lastRet
    /\ other.lastRet
    /\ fails > 0
    /\ random > 0
    /\ current > min_time_interval
    /\ other.current = current
    /\ other.internal_counter = internal_counter

====
